---- MODULE Spec2Model ----
(***************************************************************************)
(* A model of the cicada-2 test execution engine:                          *)
(*   - runners.py : the closure built by run_test (provision runners,      *)
(*     health gate, run the test, tear the runners down, merge the state)  *)
(*     over the Docker and the Kubernetes backend;                         *)
(*   - testing.py : run_test (the cycle loop with its two distribution     *)
(*     strategies) and run_test_with_timeout (the supervisor, the test     *)
(*     task and the deadline task around the shared keep-going flag, next  *)
(*     to the tasks of another timed test on the same scheduler);          *)
(*   - messaging.py : send_action, send_assert, runner_healthcheck.        *)
(* Python None is the string "None"; a missing mapping key is a has* flag. *)
(***************************************************************************)
EXTENDS Integers, Sequences, FiniteSets, TLC

\* ---------------------------------------------------------------- bounds
MaxRunners == 2
MaxActions == 2
MaxAsserts == 2
MaxCycles == 2
\* HEALTHCHECK_MAX_RETRIES / HEALTHCHECK_INITIAL_WAIT: deployment configuration
HEALTHCHECK_MAX_RETRIES == 2
HEALTHCHECK_INITIAL_WAIT == 1
\* rendered_test_config.get("timeout", 15)
DefaultTimeout == 15

Hosts == 1..MaxRunners
ActionIds == 1..MaxActions
AssertIds == 1..MaxAsserts

\* ------------------------------------------------------------ exceptions
NoExc == [kind |-> "None", msg |-> "None"]
Raise(k, m) == [kind |-> k, msg |-> m]
\* except (AssertionError, ValueError, TypeError, RuntimeError) as err
Caught == {"AssertionError", "ValueError", "TypeError", "RuntimeError"}

\* ------------------------------------------------------------ pure helpers
runner_to_image(runner_name) ==
  CASE runner_name = "rest-runner" -> "cicadatesting/cicada-2-rest-runner"
    [] runner_name = "sql-runner" -> "cicadatesting/cicada-2-sql-runner"
    [] runner_name = "kafka-runner" -> "cicadatesting/cicada-2-kafka-runner"
    [] runner_name = "s3-runner" -> "cicadatesting/cicada-2-s3-runner"
    [] runner_name = "grpc-runner" -> "cicadatesting/cicada-2-grpc-runner"
    [] OTHER -> "None"

\* runner_to_image(cfg.get("runner")) or cfg.get("image")
resolve_image(runner_name, image) ==
  IF runner_to_image(runner_name) # "None" THEN runner_to_image(runner_name) ELSE image

\* the items of a test are numbered in list order; the list of n items is <<1..n>>
Items(n) == [i \in 1..n |-> i]

\* get_remaining_asserts(asserts, statuses): the asserts not recorded as passed
RECURSIVE get_remaining_asserts(_, _)
get_remaining_asserts(asserts, statuses) ==
  IF asserts = << >> THEN << >>
  ELSE LET rest == get_remaining_asserts(Tail(asserts), statuses)
       IN IF statuses[Head(asserts)] # "passed" THEN <<Head(asserts)>> \o rest ELSE rest

\* action_has_asserts / actions_have_asserts: in the model only the first action
\* of a test may carry an inner assert (flag `inner`)
actions_have_asserts(nActions, inner) == nActions > 0 /\ inner

\* a default budget of one cycle for a test that has nothing to run
get_default_cycles_once(nActions, inner, nAsserts) ==
  IF nAsserts > 0 \/ actions_have_asserts(nActions, inner) THEN -1
  ELSE 1

\* a default budget of two cycles for a test that has only actions
get_default_cycles_twice(nActions, inner, nAsserts) ==
  IF nAsserts > 0 \/ actions_have_asserts(nActions, inner) THEN -1
  ELSE IF nActions > 0 THEN 2
  ELSE 0

get_default_cycles(nActions, inner, nAsserts) ==
  IF nAsserts > 0 \/ actions_have_asserts(nActions, inner) THEN -1
  ELSE IF nActions > 0 THEN 1
  ELSE 0

\* ---------------------------------------------------------------- messaging
\* what the transport stub does with a request: a reply, or grpc.RpcError
ErrorDetails == {"unavailable", "deadline exceeded"}
NoStub == [rpc_error |-> FALSE, details |-> "None", body |-> "None"]
Reply(body) == [rpc_error |-> FALSE, details |-> "None", body |-> body]
RpcError(details) == [rpc_error |-> TRUE, details |-> details, body |-> "None"]
RpcErrors == {RpcError(d) : d \in ErrorDetails}
ActionStubs == {Reply("json"), Reply("not json")} \cup RpcErrors
AssertStubs == {Reply("passed"), Reply("failed")} \cup RpcErrors
HealthStubs == {Reply("ready"), Reply("not ready")} \cup RpcErrors

\* how a call of a messaging function ends
Returned(v) == [raised |-> "None", value |-> v]
Raised(k) == [raised |-> k, value |-> [none |-> TRUE]]

\* a send_action that lets the transport error through
send_action_unguarded(has_params, stub) ==
  IF ~has_params THEN Raised("KeyError")
  ELSE IF stub.rpc_error THEN Raised("RpcError")
  ELSE IF stub.body = "json" THEN Returned([outputs |-> "outputs"])
  ELSE Raised("ValueError")

\* send_action: action['params'] (KeyError), stub.Action, json.loads of the reply
\* (ValueError); grpc.RpcError -> {}
send_action(has_params, stub) ==
  IF ~has_params THEN Raised("KeyError")
  ELSE IF stub.rpc_error THEN Returned([outputs |-> "{}"])
  ELSE IF stub.body = "json" THEN Returned([outputs |-> "outputs"])
  ELSE Raised("ValueError")

\* send_assert: the reply's fields, or on grpc.RpcError a status that did not pass
\* and carries err.details()
send_assert(stub) ==
  IF stub.rpc_error
  THEN Returned([passed |-> FALSE, actual |-> "None", expected |-> "None",
                 description |-> stub.details])
  ELSE Returned([passed |-> stub.body = "passed", actual |-> "actual",
                 expected |-> "expected", description |-> "description"])

\* runner_healthcheck: response.ready, or False on grpc.RpcError
runner_healthcheck(stub) ==
  IF stub.rpc_error THEN Returned([ready |-> FALSE])
  ELSE Returned([ready |-> stub.body = "ready"])

\* the last call of a messaging function: what the stub did and how the call ended
NoWire == [fn |-> "none", stub |-> NoStub, res |-> Raised("None")]
Call(fn, stub, res) == [fn |-> fn, stub |-> stub, res |-> res]

\* -------------------------------------------------------------- data model
Status == {"none", "failed", "passed"}
NoActionData == [out |-> 0, inner |-> "none"]
NoActions == [a \in ActionIds |-> NoActionData]
NoStatuses == [a \in AssertIds |-> "none"]
NoSummary == [completed_cycles |-> 0, remaining_asserts |-> << >>, error |-> "None"]
\* one entry of the state mapping: test-name -> {actions, asserts, summary}
EmptyEntry ==
  [hasActions |-> FALSE, actions |-> NoActions,
   hasAsserts |-> FALSE, asserts |-> NoStatuses,
   hasSummary |-> FALSE, summary |-> NoSummary]
\* the entry an earlier test left in the accumulated state
PrevEntry == [EmptyEntry EXCEPT !.hasSummary = TRUE]
\* TestSummary(error=str(err), completed_cycles=0, remaining_asserts=[], duration=0)
ErrorEntry(err) == [EmptyEntry EXCEPT !.hasSummary = TRUE, !.summary.error = err.msg]

IdleShard == [st |-> "idle", items |-> << >>]
\* the accumulator of the fold over the shards of the phase in progress
NoFold == [actions |-> NoActions, asserts |-> NoStatuses]
NoShards == [h \in Hosts |-> IdleShard]
NoWorld == [r \in Hosts |-> [pod |-> FALSE, svc |-> FALSE]]
NoResult == [returned |-> FALSE, hasOwn |-> FALSE, own |-> EmptyEntry, other |-> EmptyEntry]

\* the names of the scheduler's shared variables: f"keep-going-{uuid4()}"
SignalNames == {"keep-going-1", "keep-going-2"}

\* a flag name shared by every test
timeout_signal_name_shared(used) == "keep-going-1"

\* uuid.uuid4(): a name no other test's flag has
timeout_signal_name(used) == CHOOSE n \in SignalNames : n \notin used

\* another timed test: the name and value of its flag, its supervisor, its
\* deadline task
NoTest == [name |-> "None", flag |-> "unset", spc |-> "idle", dpc |-> "idle"]
\* a timed test in progress, and an earlier one that has returned while its
\* deadline task has not yet seen the flag
OtherTests ==
  {[name |-> timeout_signal_name({}), flag |-> "True", spc |-> "wait", dpc |-> "running"],
   [name |-> timeout_signal_name({}), flag |-> "False", spc |-> "returned",
    dpc |-> "running"]}

\* ------------------------------------------------------------------ inputs
Backends == {"docker", "kube"}
Strategies == {"parallel", "series", "random"}
RunnerNames == {"rest-runner", "None"}
Images == {"user/image", "None"}
\* (cycles key present, value); cycles is read by test_config.get("cycles", default)
CycleSettings == {<<FALSE, 0>>} \cup {<<TRUE, n>> : n \in -1..MaxCycles}
\* test_config.get("timeout", 15): null, negative, zero or the default
Durations == {[isNone |-> TRUE, value |-> 0], [isNone |-> FALSE, value |-> -1],
              [isNone |-> FALSE, value |-> 0], [isNone |-> FALSE, value |-> DefaultTimeout]}

Untimed == [isNone |-> FALSE, value |-> -1]
Timed == [isNone |-> FALSE, value |-> DefaultTimeout]

\* the tests that exercise the engine: one backend, every shape of test
EngineConfigs ==
  {c \in [backend : {"docker"}, runnerCount : 1..MaxRunners,
           nActions : 0..MaxActions, inner : BOOLEAN, nAsserts : 0..MaxAsserts,
           cycles : CycleSettings, actionDistributionStrategy : Strategies,
           assertDistributionStrategy : Strategies, timeout : {Untimed, Timed},
           own : {FALSE}] :
     c.inner => c.nActions > 0}

\* the tests that exercise the closure: both backends, any runner count, with and
\* without an entry under the test's name in the incoming state, a small test
ClosureConfigs ==
  [backend : Backends, runnerCount : 0..MaxRunners,
   nActions : {0, 1}, inner : {FALSE}, nAsserts : {0, 1},
   cycles : {<<FALSE, 0>>, <<TRUE, 1>>}, actionDistributionStrategy : {"parallel"},
   assertDistributionStrategy : {"series"}, timeout : Durations, own : BOOLEAN]

TestConfigs == EngineConfigs \cup ClosureConfigs

\* tests with top-level asserts under both assert strategies, with and without a
\* cycle budget and a timeout
AssertConfigs ==
  {c \in [backend : {"docker"}, runnerCount : 1..MaxRunners,
           nActions : {0, 1}, inner : BOOLEAN, nAsserts : 1..MaxAsserts,
           cycles : {<<FALSE, 0>>, <<TRUE, MaxCycles>>},
           actionDistributionStrategy : {"parallel"},
           assertDistributionStrategy : {"parallel", "series"},
           timeout : {Untimed, Timed}, own : {FALSE}] :
     /\ c.inner => c.nActions > 0
     /\ c.timeout = Timed => (c.runnerCount = 1 /\ c.nAsserts = 1)}

\* small tests with and without actions and asserts, with cycles unset, zero or a
\* budget, under every timeout setting
BudgetConfigs ==
  {c \in [backend : {"docker"}, runnerCount : 1..MaxRunners,
           nActions : {0, 1}, inner : BOOLEAN, nAsserts : {0, 1},
           cycles : {<<FALSE, 0>>, <<TRUE, 0>>, <<TRUE, MaxCycles>>},
           actionDistributionStrategy : {"parallel"},
           assertDistributionStrategy : {"series"},
           timeout : Durations, own : {FALSE}] :
     c.inner => c.nActions > 0}

\* tests of every size under every pair of valid strategies, with a cycle budget;
\* the smallest of them also with a timeout
DispatchConfigs ==
  {c \in [backend : {"docker"}, runnerCount : 1..MaxRunners,
           nActions : 0..MaxActions, inner : {FALSE}, nAsserts : 0..MaxAsserts,
           cycles : {<<TRUE, MaxCycles>>},
           actionDistributionStrategy : {"parallel", "series"},
           assertDistributionStrategy : {"parallel", "series"},
           timeout : {Untimed, Timed}, own : {FALSE}] :
     c.timeout = Timed => (c.runnerCount = 1 /\ c.nActions = 1 /\ c.nAsserts = 1)}

VARIABLES
  cfg,               \* test_config / backend functions captured by the closure
  pc,                \* position of the closure
  runners,           \* closure: the list `runners`
  world,             \* containers / pods and services that exist, per runner id
  removeCalls,       \* how often each runner was passed to remove_runner_fn
  retries,           \* container_is_healthy: retries
  wait_time,         \* container_is_healthy: wait_time
  ridx,              \* position of the teardown loop
  exc,               \* the exception in flight / caught
  new_state,         \* closure: new_state ("none", "state" of run_test, "error")
  result,            \* what the closure returned
  tpc,               \* position of run_test (the test task)
  spc,               \* position of run_test_with_timeout (the supervisor)
  dpc,               \* position of distributed_timeout (the deadline task)
  keep_going,        \* the shared flag: "unset", "True", "False"
  timedOut,          \* the supervisor saw the deadline task finish first
  remaining_cycles,
  completed_cycles,
  store,             \* content of the entry objects: other, own (incoming), fresh
  stateRef,          \* the object state[test name] of run_test refers to
  shards,            \* the shard tasks of the phase in progress, per hostname
  fold,              \* the accumulator of the fold over the finished shards
  rpcs,              \* item RPCs issued in the current cycle
  wire,              \* the last call of send_action / send_assert / runner_healthcheck
  stragglers,        \* shard tasks still on a worker after their compute() raised
  late,              \* item RPCs sent by such shards
  signal_name,       \* run_test_with_timeout: timeout_signal_name
  other              \* another timed test on the same scheduler: its flag and tasks

vars == <<cfg, pc, runners, world, removeCalls, retries, wait_time, ridx, exc,
          new_state, result, tpc, spc, dpc, keep_going, timedOut,
          remaining_cycles, completed_cycles, store, stateRef, shards, fold,
          rpcs, wire, stragglers, late, signal_name, other>>

closureVars == <<pc, runners, world, removeCalls, retries, wait_time, ridx,
                 new_state, result>>
strayVars == <<stragglers, late>>
flagVars == <<signal_name, other>>
testVars == <<remaining_cycles, completed_cycles, store, stateRef, shards, fold, rpcs,
              wire, strayVars>>

InitOf(configs, others) ==
  /\ cfg \in configs
  /\ other \in others
  /\ signal_name = "None"
  /\ pc = "start"
  /\ runners = << >>
  /\ world = NoWorld
  /\ removeCalls = [r \in Hosts |-> 0]
  /\ retries = 0
  /\ wait_time = 0
  /\ ridx = 0
  /\ exc = NoExc
  /\ new_state = "none"
  /\ result = NoResult
  /\ tpc = "idle"
  /\ spc = "idle"
  /\ dpc = "idle"
  /\ keep_going = "unset"
  /\ timedOut = FALSE
  /\ remaining_cycles = 0
  /\ completed_cycles = 0
  /\ store = [o \in {"other", "own", "fresh"} |->
                IF o = "fresh" \/ (o = "own" /\ ~cfg.own) THEN EmptyEntry ELSE PrevEntry]
  /\ stateRef = "none"
  /\ shards = NoShards
  /\ fold = NoFold
  /\ rpcs = {}
  /\ wire = NoWire
  /\ stragglers = NoShards
  /\ late = {}

\* a closure run with no other timed test on the scheduler
InitWith(configs) == InitOf(configs, {NoTest})

\* ------------------------------------------------------------ the closure
\* An exception raised inside the closure's outer try: the outer except builds the
\* error summary for the four caught kinds; any other kind leaves the closure.
OuterExcept(e) ==
  /\ exc' = e
  /\ IF e.kind \in Caught
     THEN pc' = "merge" /\ new_state' = "error"
     ELSE pc' = "escaped" /\ UNCHANGED new_state

\* closure, up to the provisioning loop: render, resolve the image, build the env
Start ==
  /\ pc = "start"
  /\ \E runner_name \in RunnerNames, image \in Images :
       IF resolve_image(runner_name, image) = "None"
       THEN OuterExcept(Raise("AssertionError", "Must specify a valid 'runner' or 'image'"))
       ELSE pc' = "provision" /\ UNCHANGED <<exc, new_state>>
  /\ UNCHANGED <<cfg, flagVars, runners, world, removeCalls, retries, wait_time, ridx, result,
                 tpc, spc, dpc, keep_going, timedOut, testVars>>

CreateOutcomes(backend) ==
  IF backend = "docker" THEN {"created", "client_error", "api_error"}
  ELSE {"created", "client_error", "api_error", "service_error"}

\* create_docker_container up to the health gate: docker.from_env(), containers.run
create_docker_container(id, outcome) ==
  CASE outcome = "client_error" ->
         OuterExcept(Raise("Other", "DockerException")) /\ UNCHANGED <<world, retries, wait_time>>
    [] outcome = "api_error" ->
         /\ OuterExcept(Raise("RuntimeError", "Unable to create container"))
         /\ UNCHANGED <<world, retries, wait_time>>
    [] OTHER ->
         /\ world' = [world EXCEPT ![id] = [pod |-> TRUE, svc |-> FALSE]]
         /\ pc' = "health" /\ retries' = 0 /\ wait_time' = HEALTHCHECK_INITIAL_WAIT
         /\ UNCHANGED <<exc, new_state>>

\* create_kube_pod up to the health gate: load config, create pod, wait, create service
create_kube_pod(id, outcome) ==
  CASE outcome = "client_error" ->
         OuterExcept(Raise("Other", "ConfigException")) /\ UNCHANGED <<world, retries, wait_time>>
    [] outcome = "api_error" ->
         /\ OuterExcept(Raise("RuntimeError", "Unable to create pod"))
         /\ UNCHANGED <<world, retries, wait_time>>
    [] outcome = "service_error" ->
         /\ OuterExcept(Raise("RuntimeError", "Unable to create pod"))
         /\ world' = [world EXCEPT ![id] = [pod |-> TRUE, svc |-> FALSE]]
         /\ UNCHANGED <<retries, wait_time>>
    [] OTHER ->
         /\ world' = [world EXCEPT ![id] = [pod |-> TRUE, svc |-> TRUE]]
         /\ pc' = "health" /\ retries' = 0 /\ wait_time' = HEALTHCHECK_INITIAL_WAIT
         /\ UNCHANGED <<exc, new_state>>

\* for _ in range(runnerCount): runner = create_runner_fn(...)
CreateRunner ==
  /\ pc = "provision"
  /\ Len(runners) < cfg.runnerCount
  /\ \E outcome \in CreateOutcomes(cfg.backend) :
       IF cfg.backend = "docker"
       THEN create_docker_container(Len(runners) + 1, outcome)
       ELSE create_kube_pod(Len(runners) + 1, outcome)
  /\ UNCHANGED <<cfg, flagVars, runners, removeCalls, ridx, result,
                 tpc, spc, dpc, keep_going, timedOut, testVars>>

\* a backoff that adds the initial wait instead of doubling
container_is_healthy_linear ==
  /\ pc = "health"
  /\ retries < HEALTHCHECK_MAX_RETRIES
  /\ \E stub \in HealthStubs :
       LET res == runner_healthcheck(stub)
       IN /\ wire' = Call("runner_healthcheck", stub, res)
          /\ IF res.value.ready
             THEN /\ runners' = Append(runners, Len(runners) + 1)
                  /\ pc' = "provision"
                  /\ UNCHANGED <<retries, wait_time>>
             ELSE /\ retries' = retries + 1
                  /\ wait_time' = wait_time + HEALTHCHECK_INITIAL_WAIT
                  /\ UNCHANGED <<runners, pc>>
  /\ UNCHANGED <<cfg, flagVars, world, removeCalls, ridx, exc, new_state, result,
                 tpc, spc, dpc, keep_going, timedOut,
                 remaining_cycles, completed_cycles, store, stateRef, shards, fold,
                 rpcs, strayVars>>

\* container_is_healthy: one iteration of the backoff loop; on ready the create
\* function returns the runner and the closure appends it to `runners`
container_is_healthy ==
  /\ pc = "health"
  /\ retries < HEALTHCHECK_MAX_RETRIES
  /\ \E stub \in HealthStubs :
       LET res == runner_healthcheck(stub)
           ready == res.value.ready
       IN /\ wire' = Call("runner_healthcheck", stub, res)
          /\ IF ready
             THEN /\ runners' = Append(runners, Len(runners) + 1)
                  /\ pc' = "provision"
                  /\ UNCHANGED <<retries, wait_time>>
             ELSE /\ retries' = retries + 1
                  /\ wait_time' = wait_time * 2
                  /\ UNCHANGED <<runners, pc>>
  /\ UNCHANGED <<cfg, flagVars, world, removeCalls, ridx, exc, new_state, result,
                 tpc, spc, dpc, keep_going, timedOut,
                 remaining_cycles, completed_cycles, store, stateRef, shards, fold,
                 rpcs, strayVars>>

\* container_is_healthy returned False: raise RuntimeError("Unable to successfully
\* contact container"); the container / pod and service are left as they are
HealthGateFails ==
  /\ pc = "health"
  /\ retries >= HEALTHCHECK_MAX_RETRIES
  /\ OuterExcept(Raise("RuntimeError", "Unable to successfully contact container"))
  /\ UNCHANGED <<cfg, flagVars, runners, world, removeCalls, retries, wait_time, ridx, result,
                 tpc, spc, dpc, keep_going, timedOut, testVars>>

\* ------------------------------------------------- run_test_with_timeout
\* the closure calls run_test_with_timeout once every runner is provisioned;
\* duration None or negative: run_test inline; else set the flag and submit the
\* test task and the deadline task
CallRunTest ==
  /\ pc = "provision"
  /\ Len(runners) = cfg.runnerCount
  /\ pc' = "run"
  /\ tpc' = "start"
  /\ IF cfg.timeout.isNone \/ cfg.timeout.value < 0
     THEN spc' = "inline" /\ UNCHANGED <<dpc, keep_going, signal_name>>
     ELSE /\ spc' = "wait" /\ dpc' = "running" /\ keep_going' = "True"
          /\ signal_name' = timeout_signal_name({other.name})
  /\ UNCHANGED <<cfg, other, runners, world, removeCalls, retries, wait_time, ridx, exc,
                 new_state, result, timedOut, testVars>>

TestTaskDone == tpc \in {"done", "raised"}

\* distributed_timeout: while now <= end_time and keep_going.get(): sleep
distributed_timeout ==
  /\ dpc = "running"
  /\ \E expired \in BOOLEAN : expired \/ keep_going = "False"
  /\ dpc' = "done"
  /\ UNCHANGED <<cfg, flagVars, closureVars, exc, tpc, spc, keep_going, timedOut, testVars>>

\* a supervisor that clears the flag only when the deadline task finished first
SuperviseOnTimeoutOnly ==
  /\ spc = "wait"
  /\ TestTaskDone \/ dpc = "done"
  /\ keep_going' = IF TestTaskDone THEN keep_going ELSE "False"
  /\ timedOut' = ~TestTaskDone
  /\ spc' = "result"
  /\ UNCHANGED <<cfg, flagVars, closureVars, exc, tpc, dpc, testVars>>

\* a supervisor that blocks on the test task without signalling it
SuperviseNoSignal ==
  /\ spc = "wait"
  /\ TestTaskDone \/ dpc = "done"
  /\ timedOut' = ~TestTaskDone
  /\ spc' = "result"
  /\ UNCHANGED <<cfg, flagVars, closureVars, exc, tpc, dpc, keep_going, testVars>>

\* wait(FIRST_COMPLETED); then on either branch keep_going.set(False) and
\* run_test_task.result()
Supervise ==
  /\ spc = "wait"
  /\ TestTaskDone \/ dpc = "done"
  /\ keep_going' = "False"
  /\ timedOut' = ~TestTaskDone
  /\ spc' = "result"
  /\ UNCHANGED <<cfg, flagVars, closureVars, exc, tpc, dpc, testVars>>

\* run_test_with_timeout returns run_test's state to the closure, or the test's
\* exception reaches the closure's inner except
ReturnResult ==
  /\ pc = "run"
  /\ spc \in {"inline", "result"}
  /\ TestTaskDone
  /\ spc' = "returned"
  /\ ridx' = 1
  /\ IF tpc = "done"
     THEN pc' = "reap" /\ new_state' = "state"
     ELSE /\ pc' = (IF exc.kind \in Caught THEN "reap_err" ELSE "escaped")
          /\ UNCHANGED new_state
  \* the locals of run_test are gone once it has returned
  /\ remaining_cycles' = 0 /\ completed_cycles' = 0 /\ rpcs' = {} /\ wire' = NoWire
  /\ UNCHANGED <<cfg, flagVars, runners, world, removeCalls, retries, wait_time, exc, result,
                 tpc, dpc, keep_going, timedOut, store, stateRef, shards, fold,
                 strayVars>>

\* ---------------------------------------------------------------- teardown
\* stop_docker_container: container.stop(timeout=3); an APIError is not wrapped
stop_docker_container(r, outcome) ==
  IF outcome = "ok"
  THEN /\ world' = [world EXCEPT ![r].pod = FALSE]
       /\ ridx' = ridx + 1
       /\ UNCHANGED <<pc, exc, new_state>>
  ELSE /\ OuterExcept(Raise("Other", "APIError"))
       /\ UNCHANGED <<world, ridx>>

\* what the cluster can answer: deleting an object that is gone is an ApiException
KubeStopOutcomes(w) ==
  IF ~w.pod THEN {"pod_error"}
  ELSE IF ~w.svc THEN {"pod_error", "svc_error"}
  ELSE {"ok", "pod_error", "svc_error"}

\* stop_kube_pod: delete pod, then delete service; ApiException -> RuntimeError
stop_kube_pod(r, outcome) ==
  CASE outcome = "ok" ->
         /\ world' = [world EXCEPT ![r] = [pod |-> FALSE, svc |-> FALSE]]
         /\ ridx' = ridx + 1
         /\ UNCHANGED <<pc, exc, new_state>>
    [] outcome = "svc_error" ->
         /\ world' = [world EXCEPT ![r].pod = FALSE]
         /\ OuterExcept(Raise("RuntimeError", "Unable to stop pod"))
         /\ UNCHANGED ridx
    [] OTHER ->
         /\ OuterExcept(Raise("RuntimeError", "Unable to stop pod"))
         /\ UNCHANGED <<world, ridx>>

\* for runner in runners: remove_runner_fn(runner)   (both teardown loops)
RemoveRunner ==
  /\ pc \in {"reap_err", "reap"}
  /\ ridx <= Len(runners)
  /\ removeCalls' = [removeCalls EXCEPT ![runners[ridx]] = @ + 1]
  /\ IF cfg.backend = "docker"
     THEN \E outcome \in {"ok", "api_error"} : stop_docker_container(runners[ridx], outcome)
     ELSE \E outcome \in KubeStopOutcomes(world[runners[ridx]]) :
            stop_kube_pod(runners[ridx], outcome)
  /\ UNCHANGED <<cfg, flagVars, runners, retries, wait_time, result,
                 tpc, spc, dpc, keep_going, timedOut, testVars>>

\* the end of a teardown loop: the inner except handler builds the error summary
\* and falls through to the second loop; the second loop falls through to the merge
TeardownDone ==
  /\ pc \in {"reap_err", "reap"}
  /\ ridx > Len(runners)
  /\ IF pc = "reap_err"
     THEN pc' = "reap" /\ ridx' = 1 /\ new_state' = "error"
     ELSE pc' = "merge" /\ UNCHANGED <<ridx, new_state>>
  /\ UNCHANGED <<cfg, flagVars, runners, world, removeCalls, retries, wait_time, exc, result,
                 tpc, spc, dpc, keep_going, timedOut, testVars>>

\* a closure that returns new_state alone on the error paths
MergeNewStateOnly ==
  /\ pc = "merge"
  /\ pc' = "returned"
  /\ result' = [returned |-> TRUE, hasOwn |-> TRUE,
                own |-> IF new_state = "state" THEN store[stateRef] ELSE ErrorEntry(exc),
                other |-> IF new_state = "state" THEN store["other"] ELSE EmptyEntry]
  /\ UNCHANGED <<cfg, flagVars, runners, world, removeCalls, retries, wait_time, ridx, exc,
                 new_state, tpc, spc, dpc, keep_going, timedOut, testVars>>

\* return {**state, **new_state}
Merge ==
  /\ pc = "merge"
  /\ pc' = "returned"
  /\ result' = [returned |-> TRUE, hasOwn |-> TRUE,
                own |-> IF new_state = "state" THEN store[stateRef] ELSE ErrorEntry(exc),
                other |-> store["other"]]
  /\ UNCHANGED <<cfg, flagVars, runners, world, removeCalls, retries, wait_time, ridx, exc,
                 new_state, tpc, spc, dpc, keep_going, timedOut, testVars>>

\* ------------------------------------------------------ run_test: helpers
\* the counters are exact up to CycleCap and stay there (Python ints are unbounded;
\* the code only ever compares remaining_cycles with 0)
CycleCap == MaxCycles + 1
Decrement(n) == IF n - 1 < -1 - CycleCap THEN n ELSE n - 1
Increment(n) == IF n + 1 > CycleCap THEN n ELSE n + 1

\* a loop test that still runs with a budget of zero left
continue_running_at_zero(nActions, inner, nAsserts, remaining, actions_data, assert_statuses) ==
  \/ (nAsserts = 0 /\ ~actions_have_asserts(nActions, inner) /\ remaining >= 0)
  \/ /\ (nAsserts # 0 \/ actions_have_asserts(nActions, inner))
     /\ remaining >= 0
     /\ \/ get_remaining_asserts(Items(nAsserts), assert_statuses) # << >>
        \/ \E action \in 1..nActions :
             action = 1 /\ inner /\ actions_data[action].inner # "passed"

continue_running(nActions, inner, nAsserts, remaining, actions_data, assert_statuses) ==
  \/ (nAsserts = 0 /\ ~actions_have_asserts(nActions, inner) /\ remaining # 0)
  \/ /\ (nAsserts # 0 \/ actions_have_asserts(nActions, inner))
     /\ remaining # 0
     /\ \/ get_remaining_asserts(Items(nAsserts), assert_statuses) # << >>
        \/ \E action \in 1..nActions :
             action = 1 /\ inner /\ actions_data[action].inner # "passed"

\* zip(cycle(hostnames), items): the items of hostname h among m hostnames
RoundRobin(items, m, h) ==
  LET n == Cardinality({j \in 1..Len(items) : (j - 1) % m = h - 1})
  IN [k \in 1..n |-> items[(k - 1) * m + h]]

ShardOf(items) ==
  IF items = << >> THEN IdleShard ELSE [IdleShard EXCEPT !.st = "pending", !.items = items]

\* a parallel dispatch that hands the actions to the first hostname only
run_actions_first_host(actions, m) ==
  [h \in Hosts |-> IF h = 1 THEN [ShardOf(actions) EXCEPT !.st = "pending"] ELSE IdleShard]

\* the shards run_actions_parallel maps over: every hostname gets all actions
run_actions_parallel(actions, m) ==
  [h \in Hosts |-> IF h <= m THEN [ShardOf(actions) EXCEPT !.st = "pending"] ELSE IdleShard]

\* the shards run_actions_series maps over: hostname_actions_map
run_actions_series(actions, m) ==
  [h \in Hosts |-> IF h <= m THEN ShardOf(RoundRobin(actions, m, h)) ELSE IdleShard]

\* run_asserts_parallel without the get_remaining_asserts filter
run_asserts_parallel_unfiltered(asserts, statuses, m) ==
  [h \in Hosts |-> IF h <= m THEN [ShardOf(asserts) EXCEPT !.st = "pending"] ELSE IdleShard]

\* the shards run_asserts_parallel maps over: every hostname gets the remaining asserts
run_asserts_parallel(asserts, statuses, m) ==
  [h \in Hosts |->
     IF h <= m
     THEN [ShardOf(get_remaining_asserts(asserts, statuses)) EXCEPT !.st = "pending"]
     ELSE IdleShard]

\* a series dispatch that hands every remaining assert to the first hostname
run_asserts_first_host(asserts, statuses, m) ==
  [h \in Hosts |->
     IF h = 1 THEN ShardOf(get_remaining_asserts(asserts, statuses)) ELSE IdleShard]

\* the shards run_asserts_series maps over: hostname_asserts_map
run_asserts_series(asserts, statuses, m) ==
  [h \in Hosts |->
     IF h <= m
     THEN ShardOf(RoundRobin(get_remaining_asserts(asserts, statuses), m, h))
     ELSE IdleShard]

\* combine_data_by_key: a passed status is kept over a failed one of the same name
combine_data_by_key(acc, res) ==
  [a \in AssertIds |->
     IF acc[a] = "passed" \/ res[a] = "passed" THEN "passed"
     ELSE IF res[a] # "none" THEN res[a] ELSE acc[a]]

\* combine_action_data: outputs recorded stay recorded (the most recent ones
\* win), a passed inner assert is kept
combine_action_data(acc, data) ==
  [a \in ActionIds |->
     [out |-> IF data[a].out # 0 THEN data[a].out ELSE acc[a].out,
      inner |-> IF acc[a].inner = "passed" \/ data[a].inner = "passed" THEN "passed"
                ELSE IF data[a].inner # "none" THEN data[a].inner ELSE acc[a].inner]]

InSeq(x, seq) == \E i \in 1..Len(seq) : seq[i] = x

\* run_actions on one hostname: outputs recorded under each action of its list,
\* the inner assert of the first action checked against the same hostname
run_actions(items, inner_status) ==
  [a \in ActionIds |->
     IF InSeq(a, items)
     THEN [out |-> 1, inner |-> IF a = 1 THEN inner_status ELSE "none"]
     ELSE NoActionData]

\* run_asserts on one hostname: the status of each assert of its list
run_asserts(items, passed) ==
  [a \in AssertIds |->
     IF a \in passed THEN "passed" ELSE IF InSeq(a, items) THEN "failed" ELSE "none"]

\* .fold(combine_action_data, initial=state[test_name].get("actions", {}))
action_fold_initial(entry) == entry.actions

\* a fold that starts from the empty mapping instead of the recorded statuses
assert_fold_initial_empty(entry) == NoStatuses

\* .fold(combine_data_by_key, initial=state[test_name].get("asserts", {}))
assert_fold_initial(entry) == entry.asserts

\* ------------------------------------------------------ run_test: actions
Entry == store[stateRef]
TaskRaise(e) == tpc' = "raised" /\ exc' = e
Pending == {h \in Hosts : shards[h].st = "pending"}
closureFrame == <<cfg, flagVars, closureVars, spc, dpc, keep_going, timedOut>>

\* run_test up to the loop: cycle budget, state = defaultdict(dict, incoming_state),
\* assert hostnames, verify_action_names, verify_assert_names
Validate ==
  /\ tpc = "start"
  /\ remaining_cycles' = IF cfg.cycles[1] THEN cfg.cycles[2]
                         ELSE get_default_cycles(cfg.nActions, cfg.inner, cfg.nAsserts)
  /\ completed_cycles' = 0
  /\ stateRef' = IF cfg.own THEN "own" ELSE "fresh"
  /\ \E names_ok \in BOOLEAN :
       /\ names_ok \/ cfg.nActions + cfg.nAsserts > 0
       /\ IF Len(runners) = 0
          THEN TaskRaise(Raise("AssertionError", "Must have at least one host to run tests"))
          ELSE IF ~names_ok
          THEN TaskRaise(Raise("AssertionError", "names if specified must be unique"))
          ELSE tpc' = "loop" /\ UNCHANGED exc
  /\ UNCHANGED <<closureFrame, strayVars, store, shards, fold, rpcs, wire>>

\* a loop head that never reads the flag
LoopCheckIgnoresFlag ==
  /\ tpc = "loop"
  /\ IF ~continue_running(cfg.nActions, cfg.inner, cfg.nAsserts, remaining_cycles,
                          Entry.actions, Entry.asserts)
     THEN tpc' = "summary" /\ UNCHANGED rpcs
     ELSE tpc' = "actions" /\ rpcs' = {}
  /\ UNCHANGED <<closureFrame, strayVars, exc, remaining_cycles, completed_cycles, store,
                 stateRef, shards, fold, wire>>

\* while continue_running(...): if timeout_signal_name is not None and not
\* keep_going.get(): break
LoopCheck ==
  /\ tpc = "loop"
  /\ IF ~continue_running(cfg.nActions, cfg.inner, cfg.nAsserts, remaining_cycles,
                          Entry.actions, Entry.asserts)
     THEN tpc' = "summary" /\ UNCHANGED rpcs
     ELSE IF spc # "inline" /\ keep_going = "False"
     THEN tpc' = "summary" /\ UNCHANGED rpcs
     ELSE tpc' = "actions" /\ rpcs' = {}
  /\ UNCHANGED <<closureFrame, strayVars, exc, remaining_cycles, completed_cycles, store,
                 stateRef, shards, fold, wire>>

\* if actions: assert the strategy, pick run_actions_series / run_actions_parallel
DispatchActions ==
  /\ tpc = "actions"
  /\ IF cfg.nActions = 0
     THEN tpc' = "asserts" /\ UNCHANGED <<exc, shards, fold>>
     ELSE IF cfg.actionDistributionStrategy \notin {"parallel", "series"}
     THEN /\ TaskRaise(Raise("AssertionError",
                             "actionDistributionStrategy must be 'parallel' or 'series'"))
          /\ UNCHANGED <<shards, fold>>
     ELSE /\ shards' = IF cfg.actionDistributionStrategy = "series"
                       THEN run_actions_series(Items(cfg.nActions), Len(runners))
                       ELSE run_actions_parallel(Items(cfg.nActions), Len(runners))
          /\ fold' = [NoFold EXCEPT !.actions = action_fold_initial(Entry)]
          /\ tpc' = "actions_wait"
          /\ UNCHANGED exc
  /\ UNCHANGED <<closureFrame, strayVars, remaining_cycles, completed_cycles, store, stateRef, rpcs,
                 wire>>

RpcsOf(kind, h, items) ==
  {[kind |-> kind, host |-> h, item |-> items[i]] : i \in 1..Len(items)}

\* what a shard of actions can come to: the inner assert's status, or send_action
\* raising (json.loads of the reply: ValueError; action['params']: KeyError)
ActionShardOutcomes(shard) ==
  (IF cfg.inner /\ InSeq(1, shard.items) THEN {"passed", "failed"} ELSE {"none"})
    \cup (IF shard.items # << >> THEN {"ValueError", "KeyError"} ELSE {})

\* what the stub did for the last action a shard sent: nothing when the request
\* could not be built, a reply json.loads rejects, or a good reply / an RpcError
ActionStubsFor(outcome) ==
  IF outcome = "KeyError" THEN {NoStub}
  ELSE IF outcome = "ValueError" THEN {Reply("not json")}
  ELSE {Reply("json")} \cup RpcErrors

\* actions_task.compute() raises with the first shard that fails; the shards of
\* the other hostnames that have not finished are no longer waited for
Abandoned(h) ==
  [k \in Hosts |-> IF k # h /\ shards[k].st = "pending" THEN shards[k] ELSE IdleShard]

\* one shard of run_actions on hostname h
RunActionShard(h) ==
  /\ tpc = "actions_wait"
  /\ shards[h].st = "pending"
  /\ \E outcome \in ActionShardOutcomes(shards[h]) :
     \E stub \in ActionStubsFor(outcome) :
       LET res == send_action(outcome # "KeyError", stub)
       IN /\ wire' = Call("send_action", stub, res)
          /\ IF res.raised # "None"
             THEN /\ TaskRaise(Raise(IF res.raised = "ValueError" THEN "ValueError"
                                     ELSE "Other", res.raised))
                  /\ shards' = NoShards
                  /\ fold' = NoFold
                  /\ rpcs' = rpcs \cup RpcsOf("Action", h, <<Head(shards[h].items)>>)
                  /\ stragglers' = Abandoned(h)
                  /\ UNCHANGED late
             ELSE /\ shards' = [shards EXCEPT ![h].st = "done"]
                  /\ fold' = [fold EXCEPT !.actions =
                                combine_action_data(@, run_actions(shards[h].items, outcome))]
                  /\ rpcs' = rpcs \cup RpcsOf("Action", h, shards[h].items)
                  /\ UNCHANGED <<tpc, exc, strayVars>>
  /\ UNCHANGED <<closureFrame, remaining_cycles, completed_cycles, store, stateRef>>

\* a shard compute() left behind: the scheduler drops it if it has not started, a
\* worker that has started it runs it to its end, whatever the caller does
\* meanwhile; its actions are sent to hostname h and its result is discarded
StragglerShard(h) ==
  /\ stragglers[h].st = "pending"
  /\ stragglers' = [stragglers EXCEPT ![h] = IdleShard]
  /\ late' = late \cup RpcsOf("Action", h, stragglers[h].items)
  /\ UNCHANGED <<cfg, flagVars, closureVars, exc, tpc, spc, dpc, keep_going, timedOut,
                 remaining_cycles, completed_cycles, store, stateRef, shards, fold,
                 rpcs, wire>>

\* a join that does not wait for the shards
JoinActionsEarly ==
  /\ tpc = "actions_wait"
  /\ store' = [store EXCEPT ![stateRef].hasActions = TRUE,
                            ![stateRef].actions = fold.actions]
  /\ shards' = NoShards
  /\ fold' = NoFold
  /\ tpc' = "asserts"
  /\ wire' = NoWire
  /\ UNCHANGED <<closureFrame, strayVars, exc, remaining_cycles, completed_cycles, stateRef, rpcs>>

\* state[test]["actions"] = the fold of the shards
JoinActions ==
  /\ tpc = "actions_wait"
  /\ Pending = {}
  /\ store' = [store EXCEPT ![stateRef].hasActions = TRUE,
                            ![stateRef].actions = fold.actions]
  /\ shards' = NoShards
  /\ fold' = NoFold
  /\ tpc' = "asserts"
  /\ wire' = NoWire
  /\ UNCHANGED <<closureFrame, strayVars, exc, remaining_cycles, completed_cycles, stateRef, rpcs>>

\* if asserts: assert the strategy, pick run_asserts_parallel / run_asserts_series
DispatchAsserts ==
  /\ tpc = "asserts"
  /\ IF cfg.nAsserts = 0
     THEN tpc' = "end_cycle" /\ UNCHANGED <<exc, shards, fold>>
     ELSE IF cfg.assertDistributionStrategy \notin {"parallel", "series"}
     THEN /\ TaskRaise(Raise("AssertionError",
                             "assertDistributionStrategy must be 'parallel' or 'series'"))
          /\ UNCHANGED <<shards, fold>>
     ELSE /\ shards' = IF cfg.assertDistributionStrategy = "parallel"
                       THEN run_asserts_parallel(Items(cfg.nAsserts), Entry.asserts,
                                                 Len(runners))
                       ELSE run_asserts_series(Items(cfg.nAsserts), Entry.asserts,
                                               Len(runners))
          /\ fold' = [NoFold EXCEPT !.asserts = assert_fold_initial(Entry)]
          /\ tpc' = "asserts_wait"
          /\ UNCHANGED exc
  /\ UNCHANGED <<closureFrame, strayVars, remaining_cycles, completed_cycles, store, stateRef, rpcs,
                 wire>>

\* what the stub did for an assert that came back passed / not passed
AssertStubsFor(passed) == {stub \in AssertStubs : send_assert(stub).value.passed = passed}

\* one shard of run_asserts on hostname h: each assert of the shard is sent to h
\* and comes back passed or not (a transport error is a status with passed = false)
RunAssertShard(h) ==
  /\ tpc = "asserts_wait"
  /\ shards[h].st = "pending"
  /\ \E passed \in SUBSET {a \in AssertIds : InSeq(a, shards[h].items)} :
       LET items == shards[h].items
       IN /\ fold' = [fold EXCEPT !.asserts =
                        combine_data_by_key(@, run_asserts(items, passed))]
          /\ IF items = << >>
             THEN UNCHANGED wire
             ELSE \E stub \in AssertStubsFor(items[Len(items)] \in passed) :
                    wire' = Call("send_assert", stub, send_assert(stub))
  /\ shards' = [shards EXCEPT ![h].st = "done"]
  /\ rpcs' = rpcs \cup RpcsOf("Assert", h, shards[h].items)
  /\ UNCHANGED <<closureFrame, strayVars, tpc, exc, remaining_cycles, completed_cycles, store,
                 stateRef>>

\* state[test]["asserts"] = the fold of the shards
JoinAsserts ==
  /\ tpc = "asserts_wait"
  /\ Pending = {}
  /\ store' = [store EXCEPT ![stateRef].hasAsserts = TRUE,
                            ![stateRef].asserts = fold.asserts]
  /\ shards' = NoShards
  /\ fold' = NoFold
  /\ tpc' = "end_cycle"
  /\ wire' = NoWire
  /\ UNCHANGED <<closureFrame, strayVars, exc, remaining_cycles, completed_cycles, stateRef, rpcs>>

\* a cycle end that counts the cycle without taking it off the budget
EndCycleKeepsBudget ==
  /\ tpc = "end_cycle"
  /\ completed_cycles' = Increment(completed_cycles)
  /\ tpc' = "loop"
  /\ UNCHANGED <<closureFrame, strayVars, exc, remaining_cycles, store, stateRef, shards,
                 fold, rpcs, wire>>

\* remaining_cycles -= 1; completed_cycles += 1; sleep between cycles
EndCycle ==
  /\ tpc = "end_cycle"
  /\ remaining_cycles' = Decrement(remaining_cycles)
  /\ completed_cycles' = Increment(completed_cycles)
  /\ tpc' = "loop"
  /\ UNCHANGED <<closureFrame, strayVars, exc, store, stateRef, shards, fold, rpcs, wire>>

\* a summary that reports the timeout as an error
SummaryTimeoutAsError ==
  /\ tpc = "summary"
  /\ store' = [store EXCEPT
       ![stateRef].hasSummary = TRUE,
       ![stateRef].summary =
          [completed_cycles |-> completed_cycles,
           remaining_asserts |-> get_remaining_asserts(Items(cfg.nAsserts), Entry.asserts),
           error |-> IF timedOut THEN "Timed out" ELSE "None"]]
  /\ tpc' = "done"
  /\ UNCHANGED <<closureFrame, strayVars, exc, remaining_cycles, completed_cycles, stateRef,
                 shards, fold, rpcs, wire>>

\* state[test]["summary"] = TestSummary(...); return state
Summary ==
  /\ tpc = "summary"
  /\ store' = [store EXCEPT
       ![stateRef].hasSummary = TRUE,
       ![stateRef].summary =
          [completed_cycles |-> completed_cycles,
           remaining_asserts |-> get_remaining_asserts(Items(cfg.nAsserts), Entry.asserts),
           error |-> "None"]]
  /\ tpc' = "done"
  /\ UNCHANGED <<closureFrame, strayVars, exc, remaining_cycles, completed_cycles, stateRef,
                 shards, fold, rpcs, wire>>

\* ----------------------------------------------------------- specification
Init == InitWith(TestConfigs)

Next ==
  \/ Start
  \/ CreateRunner
  \/ container_is_healthy
  \/ HealthGateFails
  \/ CallRunTest
  \/ distributed_timeout
  \/ Supervise
  \/ ReturnResult
  \/ RemoveRunner
  \/ TeardownDone
  \/ Merge
  \/ Validate
  \/ LoopCheck
  \/ DispatchActions
  \/ \E h \in Hosts : RunActionShard(h)
  \/ \E h \in Hosts : StragglerShard(h)
  \/ JoinActions
  \/ DispatchAsserts
  \/ \E h \in Hosts : RunAssertShard(h)
  \/ JoinAsserts
  \/ EndCycle
  \/ Summary

Spec == Init /\ [][Next]_vars

\* tests with asserts: cycles unset, negative or a budget; timeout disabled or set
LiveConfigs ==
  {c \in [backend : {"docker"}, runnerCount : 1..MaxRunners,
           nActions : {0, 1}, inner : {FALSE}, nAsserts : 1..MaxAsserts,
           cycles : {<<FALSE, 0>>, <<TRUE, -1>>, <<TRUE, MaxCycles>>},
           actionDistributionStrategy : {"parallel"},
           assertDistributionStrategy : {"series"},
           timeout : {[isNone |-> TRUE, value |-> 0], Untimed, Timed},
           own : {FALSE}] :
     /\ c.nAsserts > 1 => c.runnerCount = 1
     /\ c.timeout.isNone => (c.runnerCount = 1 /\ c.nAsserts = 1)}

\* the run_test task: one task of the scheduler, its shards included
TestStep ==
  \/ Validate
  \/ LoopCheck
  \/ DispatchActions
  \/ \E h \in Hosts : RunActionShard(h)
  \/ JoinActions
  \/ DispatchAsserts
  \/ \E h \in Hosts : RunAssertShard(h)
  \/ JoinAsserts
  \/ EndCycle
  \/ Summary

\* the scheduler runs every submitted task (every RPC of a shard returns), the
\* deadline of distributed_timeout passes, and the supervisor thread runs
LiveInit == InitWith(LiveConfigs)
LiveSpec ==
  /\ LiveInit
  /\ [][Next]_vars
  /\ WF_vars(TestStep)
  /\ WF_vars(distributed_timeout)
  /\ WF_vars(Supervise)

BudgetInit == InitWith(BudgetConfigs)
BudgetSpec == BudgetInit /\ [][Next]_vars

DispatchInit == InitWith(DispatchConfigs)
DispatchSpec == DispatchInit /\ [][Next]_vars

\* ------------------------------------------- two timed tests on one scheduler
\* Variable(name).get() as the other test's tasks see it: the scheduler keeps one
\* value per name
FlagValue(name) == IF name = signal_name THEN keep_going ELSE other.flag

\* the other test's distributed_timeout: while now <= end_time and keep_going.get()
other_distributed_timeout ==
  /\ other.dpc = "running"
  /\ \E expired \in BOOLEAN : expired \/ FlagValue(other.name) = "False"
  /\ other' = [other EXCEPT !.dpc = "done"]
  /\ UNCHANGED <<cfg, signal_name, closureVars, exc, tpc, spc, dpc, keep_going, timedOut,
                 testVars>>

\* the other test's supervisor: wait(FIRST_COMPLETED), keep_going.set(False),
\* run_test_task.result()
other_supervise ==
  /\ other.spc = "wait"
  /\ IF other.name = signal_name
     THEN keep_going' = "False" /\ other' = [other EXCEPT !.spc = "returned"]
     ELSE /\ other' = [other EXCEPT !.flag = "False", !.spc = "returned"]
          /\ UNCHANGED keep_going
  /\ UNCHANGED <<cfg, signal_name, closureVars, exc, tpc, spc, dpc, timedOut, testVars>>

\* small tests with and without a timeout next to another timed test
FlagConfigs ==
  {c \in [backend : {"docker"}, runnerCount : 1..MaxRunners,
           nActions : {0, 1}, inner : {FALSE}, nAsserts : {0, 1},
           cycles : {<<FALSE, 0>>, <<TRUE, MaxCycles>>},
           actionDistributionStrategy : {"parallel"},
           assertDistributionStrategy : {"series"},
           timeout : {Untimed, Timed}, own : {FALSE}] :
     c.runnerCount > 1 => (c.nActions = 1 /\ c.nAsserts = 0 /\ c.timeout = Timed)}

FlagInit == InitOf(FlagConfigs, OtherTests)
FlagNext == Next \/ other_distributed_timeout \/ other_supervise
FlagSpec == FlagInit /\ [][FlagNext]_vars

ClosureInit == InitWith(ClosureConfigs)
ClosureSpec == ClosureInit /\ [][Next]_vars

AssertInit == InitWith(AssertConfigs)
AssertSpec == AssertInit /\ [][Next]_vars

\* =================================================================== claims
ClosureEnded == pc \in {"returned", "escaped"}
Provisioned == {runners[i] : i \in 1..Len(runners)}
TeardownMessages == {"Unable to stop pod", "APIError"}

\* C1: whenever the closure has ended after all runnerCount runners were
\* provisioned (run_test_with_timeout was called), every provisioned runner has
\* been passed to remove_runner_fn.
C1_EveryRunnerReaped ==
  (ClosureEnded /\ tpc # "idle") => \A r \in Provisioned : removeCalls[r] >= 1

\* C2: when provisioning raised after N >= 1 runners were created and the closure
\* has returned its error summary, all N runners have been passed to
\* remove_runner_fn.
C2_PartialProvisionReaped ==
  (pc = "returned" /\ tpc = "idle" /\ Len(runners) >= 1)
    => \A r \in Provisioned : removeCalls[r] >= 1

\* C3: once the provisioner has raised 'Unable to successfully contact container',
\* the runner that failed its health gate no longer exists (no container, no pod,
\* no service).
C3_UnhealthyRunnerTornDown ==
  exc.msg = "Unable to successfully contact container"
    => \A r \in Hosts \ Provisioned : ~world[r].pod /\ ~world[r].svc

\* C4: no exception leaves the closure, and when a step before teardown failed
\* (provisioning, validation, execution) the returned entry of the test carries
\* that failure's message as its summary's error.
C4_ClosureTotal ==
  /\ pc # "escaped"
  /\ (pc = "returned" /\ tpc \in {"idle", "raised"})
       => result.own.summary.error \notin ({"None"} \cup TeardownMessages)

\* C5: a teardown error does not alter the outcome: the closure returns, after a
\* completed run the returned entry is the run's entry (error = None), after a
\* failed run its error is the execution error, never the teardown error.
C5_TeardownErrorKeepsOutcome ==
  /\ (pc = "escaped" => exc.msg \notin TeardownMessages)
  /\ (pc = "returned" /\ tpc = "done") => result.own = store[stateRef]
  /\ (pc = "returned" /\ tpc = "raised")
       => result.own.summary.error \notin TeardownMessages

\* C6: the entries reachable from incoming_state, the one under the test's own
\* name included, always have the content they had before the call.
C6_IncomingStateUnchanged ==
  /\ store["other"] = PrevEntry
  /\ store["own"] = (IF cfg.own THEN PrevEntry ELSE EmptyEntry)

AssertRpcs(a) == {r \in rpcs : r.kind = "Assert" /\ r.item = a}

\* C7: assert satisfaction is monotonic: an assert name recorded as passed in the
\* test's state is recorded as passed after every later step of the run (every
\* later merge of a cycle, under both strategies) and so in the final state.
C7_AssertMonotonic ==
  [][\A a \in AssertIds :
       (stateRef # "none" /\ store[stateRef].asserts[a] = "passed")
         => store'[stateRef'].asserts[a] = "passed"]_vars

\* a cycle that dispatched assert 2 but not assert 1 (passed in an earlier cycle)
\* has been merged, and assert 1 is still recorded as passed
C7_Witness ==
  /\ tpc = "end_cycle"
  /\ Entry.asserts[1] = "passed"
  /\ AssertRpcs(1) = {}
  /\ AssertRpcs(2) # {}

\* C8: an Assert RPC is only ever issued for an assert that the test's state does
\* not record as passed.
C8_PassedNeverRerun ==
  [][\A r \in rpcs' \ rpcs :
       r.kind = "Assert" => store[stateRef].asserts[r.item] # "passed"]_vars

\* in a cycle after assert 1 passed, assert 2 is dispatched (and assert 1 is not)
C8_Witness ==
  /\ tpc = "asserts_wait"
  /\ Entry.asserts[1] = "passed"
  /\ AssertRpcs(2) # {}
  /\ AssertRpcs(1) = {}

RunIsTimed == ~cfg.timeout.isNone /\ cfg.timeout.value >= 0
HasBudget == cfg.cycles[1] /\ cfg.cycles[2] >= 0
TestStarted == tpc = "start" /\ cfg.nAsserts > 0

\* C9 (as stated): every run of a test that has asserts ends.
C9_AlwaysEnds == TestStarted ~> TestTaskDone

\* C9 (amended): the loop of a test that has asserts is left only with no assert
\* remaining, with the explicit cycle budget used up, or on the timeout flag; and
\* a run with a non-negative timeout or a non-negative explicit budget always
\* ends (in one of these ways or by raising).
C9_EndsWhenBounded ==
  /\ [][(tpc = "loop" /\ tpc' = "summary" /\ cfg.nAsserts > 0)
          => \/ get_remaining_asserts(Items(cfg.nAsserts), Entry.asserts) = << >>
             \/ (cfg.cycles[1] /\ remaining_cycles = 0)
             \/ (spc # "inline" /\ keep_going = "False")]_vars
  /\ (TestStarted /\ (RunIsTimed \/ HasBudget)) ~> TestTaskDone

\* a run without a cycle budget was ended by the timeout with an assert unpassed
C9_Witness ==
  /\ tpc = "done"
  /\ timedOut
  /\ ~cfg.cycles[1]
  /\ cfg.nAsserts > 0
  /\ Entry.hasSummary
  /\ get_remaining_asserts(Items(cfg.nAsserts), Entry.asserts) # << >>

\* C10: when the deadline task finishes first the supervisor sets the flag to
\* false and blocks on the test task; the test task starts no cycle once it reads
\* false; it ends; and run_test_with_timeout returns the test task's state.
C10_CooperativeTimeout ==
  /\ [][(spc = "wait" /\ spc' # "wait" /\ dpc = "done" /\ ~TestTaskDone)
          => (keep_going' = "False" /\ spc' = "result" /\ tpc' = tpc)]_vars
  /\ [][(tpc = "loop" /\ spc # "inline" /\ keep_going = "False")
          => tpc' \in {"loop", "summary"}]_vars
  /\ timedOut ~> TestTaskDone
  /\ [][(spc # "returned" /\ spc' = "returned" /\ tpc = "done")
          => new_state' = "state"]_vars

\* the deadline fired during a cycle, the test left at the next cycle boundary and
\* its state was handed to the closure
C10_Witness ==
  /\ timedOut
  /\ spc = "returned"
  /\ tpc = "done"
  /\ new_state = "state"
  /\ Entry.hasSummary
  /\ get_remaining_asserts(Items(cfg.nAsserts), Entry.asserts) # << >>

EmptyTest == cfg.nActions = 0 /\ cfg.nAsserts = 0
OnlyActions == cfg.nActions > 0 /\ cfg.nAsserts = 0
OnlySummary(entry) == entry.hasSummary /\ ~entry.hasActions /\ ~entry.hasAsserts

\* C11 (as stated): a test with no actions and no asserts, whatever its cycles
\* setting, ends with completed_cycles = 0 and an entry that holds only the summary.
C11_EmptyTestNoCycle ==
  (tpc = "done" /\ EmptyTest)
    => (Entry.summary.completed_cycles = 0 /\ OnlySummary(Entry))

\* C11 (amended): a test with no actions and no asserts writes an entry that holds
\* only the summary; with cycles unset or 0 it completes no cycle; with an explicit
\* budget n > 0 it completes n (empty) cycles, fewer only when the timeout stops it.
C11_EmptyTestBudget ==
  (tpc = "done" /\ EmptyTest)
    => /\ OnlySummary(Entry)
       /\ IF ~cfg.cycles[1] \/ cfg.cycles[2] = 0
          THEN Entry.summary.completed_cycles = 0
          ELSE /\ Entry.summary.completed_cycles <= cfg.cycles[2]
               /\ ~timedOut => Entry.summary.completed_cycles = cfg.cycles[2]

\* an empty test with cycles unset has ended without a cycle
C11_Witness ==
  /\ tpc = "done"
  /\ EmptyTest
  /\ ~cfg.cycles[1]
  /\ OnlySummary(Entry)
  /\ Entry.summary.completed_cycles = 0

\* C12 (as stated): a test with only actions and cycles unset ends with
\* completed_cycles = 1 under every timeout value.
C12_OneCycle ==
  (tpc = "done" /\ OnlyActions /\ ~cfg.cycles[1])
    => Entry.summary.completed_cycles = 1

\* C12 (amended): a test with only actions, none of them with inner asserts, and
\* cycles unset ends with completed_cycles = 1 when it runs without a timeout; with
\* a timeout it ends with 1, or with 0 when the timeout stopped it before its cycle.
C12_OneCycleUnlessStopped ==
  (tpc = "done" /\ OnlyActions /\ ~cfg.inner /\ ~cfg.cycles[1])
    => \/ Entry.summary.completed_cycles = 1
       \/ (Entry.summary.completed_cycles = 0 /\ timedOut
           /\ ~cfg.timeout.isNone /\ cfg.timeout.value >= 0)

\* a test with only actions and cycles unset ran its one cycle under a timeout
C12_Witness ==
  /\ tpc = "done"
  /\ OnlyActions
  /\ ~cfg.inner
  /\ ~cfg.cycles[1]
  /\ spc = "result"
  /\ Entry.hasActions
  /\ Entry.summary.completed_cycles = 1

ItemRpcs(kind) == {r \in rpcs : r.kind = kind}
RunnerHosts == 1..Len(runners)
RemainingAsserts == get_remaining_asserts(Items(cfg.nAsserts), Entry.asserts)
\* every hostname holds the whole list, and once every shard has run there is one
\* RPC per hostname and item
FanOut(kind, items) ==
  /\ \A h \in RunnerHosts : shards[h].items = items
  /\ Pending = {} =>
       /\ ItemRpcs(kind) = {[kind |-> kind, host |-> h, item |-> items[i]] :
                              h \in RunnerHosts, i \in 1..Len(items)}
       /\ Cardinality(ItemRpcs(kind)) = Len(runners) * Len(items)

\* C13: under the parallel strategy every hostname receives the entire list (all
\* actions; the asserts unsatisfied at the start of the assert phase), and a cycle
\* issues m * k item RPCs for m hostnames and k items.
C13_ParallelFanOut ==
  /\ (tpc = "actions_wait" /\ cfg.actionDistributionStrategy = "parallel")
       => FanOut("Action", Items(cfg.nActions))
  /\ (tpc = "asserts_wait" /\ cfg.assertDistributionStrategy = "parallel")
       => FanOut("Assert", RemainingAsserts)

\* two hostnames have each run the one assert that was still unsatisfied
C13_Witness ==
  /\ tpc = "asserts_wait"
  /\ cfg.assertDistributionStrategy = "parallel"
  /\ Pending = {}
  /\ Len(runners) = 2
  /\ cfg.nAsserts = 2
  /\ Entry.asserts[1] = "passed"
  /\ RemainingAsserts = <<2>>
  /\ Cardinality(ItemRpcs("Assert")) = 2

HostOf(i) == ((i - 1) % Len(runners)) + 1
\* the i-th item is held by hostname h_((i-1) mod m) and by no other, every shard
\* keeps the input order, and once every shard has run there is one RPC per item
RoundRobinDispatch(kind, items) ==
  /\ \A i \in 1..Len(items) : \A h \in RunnerHosts :
       InSeq(items[i], shards[h].items) <=> h = HostOf(i)
  /\ \A h \in RunnerHosts : \A j, k \in 1..Len(shards[h].items) :
       /\ InSeq(shards[h].items[j], items)
       /\ j < k => shards[h].items[j] < shards[h].items[k]
  /\ Pending = {} =>
       /\ ItemRpcs(kind) = {[kind |-> kind, host |-> HostOf(i), item |-> items[i]] :
                              i \in 1..Len(items)}
       /\ Cardinality(ItemRpcs(kind)) = Len(items)

InvalidStrategy ==
  \/ cfg.actionDistributionStrategy \notin {"parallel", "series"}
  \/ cfg.assertDistributionStrategy \notin {"parallel", "series"}

\* C15: a test with a strategy other than 'parallel' or 'series' is rejected before
\* the loop: no action or assert is ever dispatched and run_test never ends with a
\* normal summary.
C15_InvalidStrategyRejected ==
  InvalidStrategy => (rpcs = {} /\ tpc \notin {"actions_wait", "asserts_wait", "done"})

\* C16: a transport error never leaves a messaging function: send_action returns
\* the empty mapping, send_assert a status with passed = false, actual and expected
\* null and the error's details as description, runner_healthcheck false.
C16_TransportErrorsAbsorbed ==
  /\ \A stub \in RpcErrors :
       /\ send_action(TRUE, stub) = Returned([outputs |-> "{}"])
       /\ send_assert(stub) = Returned([passed |-> FALSE, actual |-> "None",
                                        expected |-> "None",
                                        description |-> stub.details])
       /\ runner_healthcheck(stub) = Returned([ready |-> FALSE])
  /\ wire.stub.rpc_error =>
       /\ wire.res.raised = "None"
       /\ wire.fn = "send_action" => wire.res.value = [outputs |-> "{}"]
       /\ wire.fn = "send_assert" =>
            /\ ~wire.res.value.passed
            /\ wire.res.value.description = wire.stub.details
       /\ wire.fn = "runner_healthcheck" => ~wire.res.value.ready
  /\ exc.msg # "RpcError"

\* an assert was sent, the stub raised "deadline exceeded", and the status that came
\* back carries it
C16_Witness ==
  /\ tpc = "asserts_wait"
  /\ wire.fn = "send_assert"
  /\ wire.stub = RpcError("deadline exceeded")
  /\ wire.res = Returned([passed |-> FALSE, actual |-> "None", expected |-> "None",
                          description |-> "deadline exceeded"])

RECURSIVE Pow2(_)
Pow2(n) == IF n = 0 THEN 1 ELSE 2 * Pow2(n - 1)
HealthcheckDone == pc = "health" /\ (retries' # retries \/ runners' # runners)

\* C17: container_is_healthy makes at most R healthchecks, the i-th after a wait of
\* W * 2^(i-1); it returns true at the first one that reports ready, making no
\* further one, and false exactly after R that report not ready.
C17_BackoffBounded ==
  /\ [](pc = "health" =>
          /\ retries <= HEALTHCHECK_MAX_RETRIES
          /\ wait_time = HEALTHCHECK_INITIAL_WAIT * Pow2(retries))
  /\ [][HealthcheckDone =>
          /\ retries < HEALTHCHECK_MAX_RETRIES
          /\ wire'.fn = "runner_healthcheck"
          /\ IF wire'.res.value.ready
             THEN pc' = "provision" /\ Len(runners') = Len(runners) + 1
             ELSE pc' = "health" /\ retries' = retries + 1 /\ runners' = runners]_vars
  /\ [][(pc = "health" /\ pc' \notin {"health", "provision"}) =>
          /\ retries = HEALTHCHECK_MAX_RETRIES
          /\ exc'.msg = "Unable to successfully contact container"]_vars

\* R healthchecks in a row reported not ready
C17_Witness ==
  /\ pc = "health"
  /\ retries = HEALTHCHECK_MAX_RETRIES
  /\ wait_time = HEALTHCHECK_INITIAL_WAIT * Pow2(HEALTHCHECK_MAX_RETRIES)
  /\ ~wire.res.value.ready

\* C18: run_test_with_timeout with a non-negative duration never returns or raises
\* before the flag is set to false, whichever task finished first and also when the
\* test task failed; and the deadline task terminates.
C18_FlagClearedBeforeReturn ==
  /\ []((RunIsTimed /\ spc = "returned") => keep_going = "False")
  /\ [][(spc = "wait" /\ spc' # "wait") => (keep_going' = "False" /\ spc' = "result")]_vars
  /\ [][(RunIsTimed /\ spc # "returned" /\ spc' = "returned")
          => (spc = "result" /\ keep_going = "False")]_vars
  /\ (dpc = "running") ~> (dpc = "done")

\* the test task failed before the deadline; the flag was cleared all the same, the
\* exception reached the closure and the deadline task has ended
C18_Witness ==
  /\ spc = "returned"
  /\ tpc = "raised"
  /\ ~timedOut
  /\ keep_going = "False"
  /\ dpc = "done"

ExpectedActionRpcs ==
  IF cfg.actionDistributionStrategy = "parallel"
  THEN {[kind |-> "Action", host |-> h, item |-> a] :
          h \in RunnerHosts, a \in 1..cfg.nActions}
  ELSE {[kind |-> "Action", host |-> HostOf(a), item |-> a] : a \in 1..cfg.nActions}

\* C20: cycles are sequential and each runs actions before asserts: a cycle starts
\* only with every shard of the one before joined and merged, an action RPC is
\* issued only in the action phase, and an assert RPC only once all action shards of
\* the cycle have run and their fold is stored in state[test].actions.
C20_SequentialCycles ==
  /\ [][\A r \in rpcs' \ rpcs :
          /\ r.kind = "Action" => (tpc = "actions_wait" /\ ItemRpcs("Assert") = {})
          /\ r.kind = "Assert" =>
               /\ tpc = "asserts_wait"
               /\ cfg.nActions > 0 =>
                    (Entry.hasActions /\ ItemRpcs("Action") = ExpectedActionRpcs)]_vars
  /\ [][(tpc = "loop" /\ tpc' = "actions") =>
          /\ shards = NoShards /\ fold = NoFold
          /\ completed_cycles > 0 =>
               /\ cfg.nActions > 0 => Entry.hasActions
               /\ cfg.nAsserts > 0 => Entry.hasAsserts]_vars
  /\ []((tpc = "asserts_wait" /\ cfg.nActions > 0)
          => (Entry.hasActions /\ ItemRpcs("Action") = ExpectedActionRpcs))

\* in the second cycle an assert is sent after all actions of that cycle
C20_Witness ==
  /\ tpc = "asserts_wait"
  /\ completed_cycles = 1
  /\ cfg.nActions > 0
  /\ Len(runners) = 2
  /\ ItemRpcs("Action") = ExpectedActionRpcs
  /\ ItemRpcs("Assert") # {}

AllProvisioned == Len(runners) = cfg.runnerCount
TeardownBegun == \E r \in Hosts : removeCalls[r] > 0
ItemRpcSent == rpcs' \ rpcs # {} \/ late' \ late # {}

\* C21: the runner lifecycle is ordered provision, health gate, execute, teardown:
\* an Action or Assert RPC is sent only once all runnerCount runners are created and
\* healthy, and never after the removal of the first runner has begun.
C21_LifecycleOrdered ==
  [][ItemRpcSent => (AllProvisioned /\ ~TeardownBegun)]_vars

RunTestActive == tpc \notin {"idle", "start"} /\ spc # "returned"
CycleBudget ==
  IF cfg.cycles[1] THEN cfg.cycles[2]
  ELSE get_default_cycles(cfg.nActions, cfg.inner, cfg.nAsserts)
StoppedByFlag ==
  /\ spc # "inline" /\ keep_going = "False"
  /\ continue_running(cfg.nActions, cfg.inner, cfg.nAsserts, remaining_cycles,
                      Entry.actions, Entry.asserts)

\* C22: while run_test runs, completed_cycles + remaining_cycles is the initial
\* cycle budget; remaining_cycles never increases; the counters change only at the
\* end of a cycle body, by -1 and +1 (counted up to the cap of the counters); and
\* an iteration that breaks on the timeout flag changes neither counter and
\* dispatches nothing.
C22_CycleCounters ==
  /\ [](RunTestActive => completed_cycles + remaining_cycles = CycleBudget)
  /\ [][(RunTestActive /\ spc' # "returned")
          => /\ remaining_cycles' <= remaining_cycles
             /\ completed_cycles' >= completed_cycles
             /\ (remaining_cycles' # remaining_cycles \/ completed_cycles' # completed_cycles)
                  => tpc = "end_cycle"]_vars
  /\ [][(tpc = "end_cycle" /\ tpc' # "end_cycle" /\ completed_cycles < CycleCap)
          => /\ remaining_cycles' = remaining_cycles - 1
             /\ completed_cycles' = completed_cycles + 1]_vars
  /\ [][(tpc = "loop" /\ tpc' = "summary")
          => UNCHANGED <<remaining_cycles, completed_cycles, rpcs, shards, late>>]_vars

\* the timeout flag stopped a test after one full cycle with budget left
C22_Witness ==
  /\ tpc = "summary"
  /\ StoppedByFlag
  /\ completed_cycles = 1
  /\ remaining_cycles = MaxCycles - 1
  /\ remaining_cycles > 0

ExplicitBudget == cfg.cycles[1] /\ cfg.cycles[2] >= 0
NoAssertsAtAll == cfg.nAsserts = 0 /\ ~actions_have_asserts(cfg.nActions, cfg.inner)

\* C23: with cycles = n >= 0 run_test executes at most n cycle bodies (its counter
\* and its summary never exceed n, and an item RPC is sent only in one of the first
\* n cycles), and a run that returns executed exactly n when the test has no
\* top-level asserts, no inner asserts and the timeout did not fire.
C23_BudgetBoundsWork ==
  /\ []((ExplicitBudget /\ RunTestActive) => completed_cycles <= cfg.cycles[2])
  /\ []((ExplicitBudget /\ tpc = "done")
          => Entry.summary.completed_cycles <= cfg.cycles[2])
  /\ [][(ExplicitBudget /\ rpcs' \ rpcs # {}) => completed_cycles < cfg.cycles[2]]_vars
  /\ []((ExplicitBudget /\ tpc = "done" /\ NoAssertsAtAll /\ ~timedOut)
          => Entry.summary.completed_cycles = cfg.cycles[2])

\* a test with one action and a budget of MaxCycles ran under a timeout that did
\* not fire and reports MaxCycles completed cycles
C23_Witness ==
  /\ tpc = "done"
  /\ cfg.cycles = <<TRUE, MaxCycles>>
  /\ cfg.nActions > 0
  /\ NoAssertsAtAll
  /\ spc = "result"
  /\ ~timedOut
  /\ Entry.hasActions
  /\ Entry.summary.completed_cycles = MaxCycles

\* C24: within one closure run remove_runner_fn is called at most once for each
\* provisioned runner, on every exit path, the one where run_test_with_timeout
\* raises included.
C24_RemovedAtMostOnce == \A r \in Hosts : removeCalls[r] <= 1

\* C25: the state the closure returns holds every key of the incoming state other
\* than the test's name with its incoming value, after a completed run, after a
\* failed run and after a failed provisioning; the entry under the test's name is
\* present, and on the error paths it is the error summary alone.
C25_ShallowMerge ==
  /\ [](pc = "returned" =>
          /\ result.returned
          /\ result.other = PrevEntry
          /\ store["other"] = PrevEntry
          /\ result.hasOwn
          /\ result.own.hasSummary
          /\ new_state = "error" => result.own = ErrorEntry(exc))
  /\ [][pc' = "returned" => result'.other = store["other"]]_vars

\* the test raised with an entry of its own name in the incoming state: the
\* returned state has the other entry as it came and the error summary
C25_Witness ==
  /\ pc = "returned"
  /\ cfg.own
  /\ tpc = "raised"
  /\ new_state = "error"
  /\ result.other = PrevEntry
  /\ result.own = ErrorEntry(exc)
  /\ result.own # PrevEntry

\* C26: a timed test's flag has a name no other test's flag has; the tasks of
\* another timed test never change this test's flag, tasks or outcome; this test's
\* flag is written only by its own run_test_with_timeout, which leaves the other
\* test's flag alone; and the test leaves its loop on the flag only once its own
\* supervisor has cleared it.
C26_FlagsIsolated ==
  /\ [](signal_name # "None" => (signal_name \in SignalNames /\ signal_name # other.name))
  /\ [][other' # other
          => UNCHANGED <<keep_going, signal_name, tpc, spc, dpc, timedOut, pc>>]_vars
  /\ [][keep_going' # keep_going
          => /\ other' = other
             /\ \/ (pc = "provision" /\ keep_going' = "True")
                \/ (spc = "wait" /\ spc' = "result" /\ keep_going' = "False")]_vars
  /\ [][(tpc = "loop" /\ tpc' = "summary" /\ StoppedByFlag) => spc = "result"]_vars

\* the other test has returned and cleared its flag, its deadline task is over,
\* and this test, started after it, is in its second cycle with its flag still true
C26_Witness ==
  /\ signal_name \in SignalNames
  /\ other.name \in SignalNames
  /\ other.spc = "returned"
  /\ other.flag = "False"
  /\ other.dpc = "done"
  /\ spc = "wait"
  /\ keep_going = "True"
  /\ tpc = "actions_wait"
  /\ completed_cycles = 1

\* C27: once stop_kube_pod has finished for a runner, by returning or by raising,
\* the runner's Pod and Service either both exist or are both deleted.
C27_PodServicePair ==
  \A r \in Hosts :
    (cfg.backend = "kube" /\ removeCalls[r] >= 1) => (world[r].pod <=> world[r].svc)
====
